---------------------------- MODULE Spec2Model ----------------------------
(***************************************************************************)
(* Macide credential lifecycle and rotation engine.                        *)
(*                                                                         *)
(*   AccountManager   (accounts/manager.ts)   registry + active pointer     *)
(*   AccountRotator   (auth/rotator.ts)       throttle handling, selectNext *)
(*   HTTP interceptor (auth/httpInterceptor)  429 -> rotator                *)
(*   CredentialBridge (auth/credentialBridge) resolve / cross-account       *)
(*   OAuthFlow + MacideGitHubAuthProvider     device flow, createSession    *)
(*                                                                         *)
(* Every async method is a task: its synchronous prefix runs in the action *)
(* that calls it, and each continuation after an `await` is a later step,  *)
(* so other handlers interleave exactly where the event loop lets them.    *)
(***************************************************************************)
EXTENDS Integers, Sequences, FiniteSets, Bags, TLC

\* ------------------------------------------------------------------ bounds
MaxAccounts  == 2   \* accounts ever created (ids are never reused: randomUUID)
RotAccounts  == 3   \* accounts in a registry state drawn for the rotator
MaxTasks     == 2   \* async registry calls in flight at once
MaxThrottles == 2   \* 429 responses delivered
MaxCross     == 1   \* checkCrossAccountRemote calls made
MaxFlows     == 2   \* createSession calls (OAuthFlow instances)
MaxSlowDowns == 1   \* slow_down responses one flow receives
MaxUrlLen    == 6   \* tokens in a remote URL
DailyLimit   == 5   \* the configured assumedDailyLimit (tracker.dailyLimit)
MaxCount     == 6   \* increments of one account on one day
MaxDays      == 2   \* calendar days that pass
MaxInFlight  == 1   \* requests awaiting their response
MaxResponses == 3   \* responses delivered
MaxVaultOps  == 2   \* vault operations invoked
MaxResets    == 2   \* resetAccount calls made
MaxCalls     == 3   \* AccountManager / provider calls that write the vault

IdSeq == <<"A", "B", "C", "D", "E">>
Ids   == {IdSeq[i] : i \in 1..5}
None  == "none"

Statuses   == {"healthy", "warning", "exhausted", "idle"}
Strategies == {"round-robin", "least-used", "manual"}

VARIABLES
  accounts,        \* AccountManager._accounts: sequence of account ids
  activeId,        \* AccountManager._activeId (None = undefined)
  obj,             \* the account objects: id -> [status, requestCount]
  nCreated,        \* how many accounts were ever created
  strategy,        \* AccountRotator._strategy
  tasks,           \* async registry calls in flight: a bag of tasks
  lastNote,        \* the notification emitted last
  nNotes,          \* how many notifications were emitted
  throttles,       \* 429 responses delivered so far
  crossChecks,     \* checkCrossAccountRemote calls made so far
  picked,          \* what a direct selectNext() call returned last
  flows,           \* the OAuthFlow instances created: index -> flow
  nFlows,          \* how many OAuthFlow instances were created
  activeFlow,      \* MacideGitHubAuthProvider._activeFlow (0 = undefined)
  clientId,        \* whether a GitHub OAuth client id is configured
  remoteUrl,       \* the remote URL handed to the credential bridge
  resolved,        \* what resolveCredentials returned for it
  today,           \* the current calendar day (a day number)
  countDate,       \* the accounts' requestCountDate: id -> day
  warnedToday,     \* AccountTracker._warnedToday: a set of account ids
  warnCalls,       \* onWarningThreshold calls made on the current day: id -> n
  lastSweep,       \* daily sweeps run in a row just now (0, 1, 2 = two or more)
  sweepSaves,      \* saveAll calls made by those sweeps
  trackerCall,     \* the AccountTracker call made in the last step, if any
  history,         \* globalState macide.usage.<id>: id -> past daily counts
  nResets,         \* resetAccount calls made so far
  installed,       \* httpInterceptor: _interceptInstalled
  layers,          \* interceptor wrappers on https.request (0 = the original)
  inflight,        \* requests sent whose response has not arrived
  lastObs,         \* the interceptor call made last and what it did
  nResponses,      \* responses delivered so far
  vault,           \* the array stored under SERVICE_NAME in SecretStorage
  vcalls,          \* the vault operations invoked, each with its progress
  vaultStart,      \* the array stored before the first of them was invoked
  persistedId      \* globalState 'macide.activeAccountId' (None = undefined)

regVars == <<accounts, activeId, obj, nCreated, strategy, tasks, lastNote,
             nNotes, throttles, crossChecks>>

NoPick == "-"

selVars == <<picked>>

flowVars == <<flows, nFlows, activeFlow, clientId>>

bridgeVars == <<remoteUrl, resolved>>

usageVars == <<today, countDate, warnedToday, warnCalls, lastSweep, sweepSaves,
               trackerCall, history, nResets>>

interceptVars == <<installed, layers, inflight, lastObs, nResponses>>

vaultVars == <<vault, vcalls, vaultStart, persistedId>>

extraVars == <<usageVars, interceptVars, vaultVars>>

vars == <<regVars, selVars, flowVars, bridgeVars, extraVars>>

\* ------------------------------------------------------- sequence helpers
\* Array.prototype.findIndex, 1-based; 0 when nothing matches (JS: -1).
RECURSIVE FindIndexFrom(_, _, _)
FindIndexFrom(s, x, i) ==
  IF i > Len(s) THEN 0
  ELSE IF s[i] = x THEN i ELSE FindIndexFrom(s, x, i + 1)

FindIndex(s, x) == FindIndexFrom(s, x, 1)

InList(s, x) == \E i \in 1..Len(s) : s[i] = x

\* Array.prototype.filter(a => a.id !== x)
RECURSIVE Without(_, _)
Without(s, x) ==
  IF s = <<>> THEN <<>>
  ELSE IF Head(s) = x THEN Without(Tail(s), x)
       ELSE <<Head(s)>> \o Without(Tail(s), x)

\* ---------------------------------------------------------- AccountManager
\* getActive(): this._accounts.find(a => a.id === this._activeId)
GetActive(accts, act) == IF InList(accts, act) THEN act ELSE None

\* ---------------------------------------------------------- AccountRotator
\* a filter that lets exhausted accounts through
AvailableKeepsExhausted(accts, o) == accts

\* getAll().filter(a => a.status !== 'exhausted')
RECURSIVE Available(_, _)
Available(accts, o) ==
  IF accts = <<>> THEN <<>>
  ELSE IF o[Head(accts)].status # "exhausted"
       THEN <<Head(accts)>> \o Available(Tail(accts), o)
       ELSE Available(Tail(accts), o)

\* Stable insertion of x into a sequence already sorted by requestCount:
\* x goes after every element whose count is <= its own.
RECURSIVE InsertByCount(_, _, _)
InsertByCount(sorted, x, o) ==
  IF sorted = <<>> THEN <<x>>
  ELSE IF o[Head(sorted)].requestCount <= o[x].requestCount
       THEN <<Head(sorted)>> \o InsertByCount(Tail(sorted), x, o)
       ELSE <<x>> \o sorted

\* [...available].sort((a, b) => a.requestCount - b.requestCount), a stable sort
RECURSIVE SortByCount(_, _)
SortByCount(s, o) ==
  IF s = <<>> THEN <<>>
  ELSE InsertByCount(SortByCount(SubSeq(s, 1, Len(s) - 1), o), s[Len(s)], o)

\* round-robin branch: available[(currentIndex + 1) % available.length], where
\* currentIndex is the active account's index in the FILTERED list (-1 if absent)
RoundRobinPick(available, currentId) ==
  available[((FindIndex(available, currentId) - 1 + 1) % Len(available)) + 1]

\* least-used branch
LeastUsedPick(available, o) == Head(SortByCount(available, o))

\* selectNext() with the final `return null` replaced by the round-robin pick
SelectNextIgnoresManual(accts, act, o, strat) ==
  LET available == Available(accts, o) IN
  IF Len(available) = 0 THEN None
  ELSE IF strat = "least-used" THEN LeastUsedPick(available, o)
  ELSE RoundRobinPick(available, GetActive(accts, act))

\* selectNext(): None stands for null
SelectNext(accts, act, o, strat) ==
  LET available == Available(accts, o) IN
  IF Len(available) = 0 THEN None
  ELSE IF strat = "round-robin"
       THEN RoundRobinPick(available, GetActive(accts, act))
  ELSE IF strat = "least-used" THEN LeastUsedPick(available, o)
  ELSE None


\* ------------------------------------------------------------------ tasks
\* An async AccountManager / CredentialBridge call suspended at an await.
\*   op    which method          pc    the await it is suspended at
\*   acct  the account argument  src   who called it
\*   about the throttled account a rotation was started for
\* Persistence (the vault array, globalState) is not part of this state: an
\* await on it is a point where other handlers run.
\*   flow  the createSession call (its OAuthFlow) the task belongs to, or 0
Task(op, pc, acct, src, about) ==
  [op |-> op, pc |-> pc, acct |-> acct, src |-> src, about |-> about,
   flow |-> 0]

NoNote == [kind |-> "none", acct |-> None]

NewAccount == [status |-> "healthy", requestCount |-> 0]

Running == BagToSet(tasks)

CanStart == BagCardinality(tasks) < MaxTasks

Start(t) == tasks (+) SetToBag({t})

Finish(t) == tasks (-) SetToBag({t})

Become(t, u) == (tasks (-) SetToBag({t})) (+) SetToBag({u})

\* setActive up to its first await: demote the previous active account and
\* suspend on its upsert, or (no previous, or the same account) move the
\* pointer at once and suspend on the upsert of the account itself.
SetActiveEnter(accts, act, o, a) ==
  LET prev == GetActive(accts, act) IN
  IF prev # None /\ prev # a
  THEN [activeId |-> act, obj |-> [o EXCEPT ![prev].status = "idle"],
        pc |-> "upsertPrev"]
  ELSE [activeId |-> a, obj |-> o, pc |-> "persist"]

\* setActive after `await upsertAccount(prev)`: this._activeId = account.id
SetActiveAfterPrev(t) ==
  /\ t \in Running
  /\ t.op = "setActive" /\ t.pc = "upsertPrev"
  /\ activeId' = t.acct
  /\ tasks' = Become(t, [t EXCEPT !.pc = "persist"])
  /\ UNCHANGED <<accounts, obj, nCreated, strategy, lastNote, nNotes,
                 throttles, crossChecks>>

\* setActive after `await upsertAccount(account)` and `await
\* globalState.update(...)`: the events fire and the call returns;
\* checkCrossAccountRemote then emits its notification.
SetActiveDone(t) ==
  /\ t \in Running
  /\ t.op = "setActive" /\ t.pc = "persist"
  /\ tasks' = Finish(t)
  /\ IF t.src = "cross"
     THEN /\ lastNote' = [kind |-> "crossSwitched", acct |-> t.acct]
          /\ nNotes' = nNotes + 1
     ELSE UNCHANGED <<lastNote, nNotes>>
  /\ UNCHANGED <<accounts, activeId, obj, nCreated, strategy, throttles,
                 crossChecks>>

\* The account panel's switch command: find the target in getAll(), setActive.
SwitchAccount(a) ==
  /\ CanStart
  /\ InList(accounts, a)
  /\ LET r == SetActiveEnter(accounts, activeId, obj, a) IN
       /\ activeId' = r.activeId
       /\ obj' = r.obj
       /\ tasks' = Start(Task("setActive", r.pc, a, "user", None))
  /\ UNCHANGED <<accounts, nCreated, strategy, lastNote, nNotes, throttles,
                 crossChecks>>

\* removeAccountById up to `await removeAccount(...)`: the list is filtered.
RemoveCall(a) ==
  /\ CanStart
  /\ InList(accounts, a)
  /\ accounts' = Without(accounts, a)
  /\ tasks' = Start(Task("remove", "vaultRemove", a, "user", None))
  /\ UNCHANGED <<activeId, obj, nCreated, strategy, lastNote, nNotes,
                 throttles, crossChecks>>

\* removeAccountById after the vault write: repoint the active id if it was
\* the removed account, to the first remaining account or undefined; the
\* events fire after `await globalState.update`.
RemoveAfterVault(t) ==
  /\ t \in Running
  /\ t.op = "remove" /\ t.pc = "vaultRemove"
  /\ IF activeId = t.acct
     THEN /\ activeId' = IF Len(accounts) > 0 THEN accounts[1] ELSE None
          /\ tasks' = Become(t, [t EXCEPT !.pc = "persist"])
     ELSE /\ tasks' = Finish(t)
          /\ UNCHANGED activeId
  /\ UNCHANGED <<accounts, obj, nCreated, strategy, lastNote, nNotes,
                 throttles, crossChecks>>

\* removeAccountById after `await globalState.update`: the events fire.
RemoveDone(t) ==
  /\ t \in Running
  /\ t.op = "remove" /\ t.pc = "persist"
  /\ tasks' = Finish(t)
  /\ UNCHANGED <<accounts, activeId, obj, nCreated, strategy, lastNote,
                 nNotes, throttles, crossChecks>>

\* createSession once the device flow returned an account: addAccount up to
\* `await upsertAccount`. The id is a fresh UUID.
SessionAdd ==
  /\ CanStart
  /\ nCreated < MaxAccounts
  /\ LET a == IdSeq[nCreated + 1] IN
       /\ accounts' = Without(accounts, a) \o <<a>>
       /\ obj' = [obj EXCEPT ![a] = NewAccount]
       /\ tasks' = Start(Task("add", "upsertAdd", a, "session", None))
  /\ nCreated' = nCreated + 1
  /\ UNCHANGED <<activeId, strategy, lastNote, nNotes, throttles, crossChecks>>

\* createSession after `await addAccount(account)`: setActive(account).
SessionActivate(t) ==
  /\ t \in Running
  /\ t.op = "add" /\ t.pc = "upsertAdd"
  /\ LET r == SetActiveEnter(accounts, activeId, obj, t.acct) IN
       /\ activeId' = r.activeId
       /\ obj' = r.obj
       /\ tasks' = Become(t, [Task("setActive", r.pc, t.acct, "session", None)
                                 EXCEPT !.flow = t.flow])
  /\ UNCHANGED <<accounts, nCreated, strategy, lastNote, nNotes, throttles,
                 crossChecks>>

\* settingsPanel 'moveAccount': splice the account one place up or down and
\* saveAll(all), which replaces this._accounts.
MoveAccount(i, delta) ==
  /\ i \in 1..Len(accounts)
  /\ i + delta \in 1..Len(accounts)
  /\ accounts' = [accounts EXCEPT ![i] = accounts[i + delta],
                                  ![i + delta] = accounts[i]]
  /\ UNCHANGED <<activeId, obj, nCreated, strategy, tasks, lastNote, nNotes,
                 throttles, crossChecks>>

\* syncSettings(): rotator.strategy = strategy
SetStrategy(s) ==
  /\ strategy' = s
  /\ UNCHANGED <<accounts, activeId, obj, nCreated, tasks, lastNote, nNotes,
                 throttles, crossChecks>>

\* ------------------------------------------------- rotator: throttle handling
\* onRateLimitDetected(account), all of it synchronous: mark the account
\* exhausted, updateAccount (the object is already the list's), then either the
\* manual notification, or selectNext and setActive(next) -- not awaited -- and
\* the "Switched to" notification, or the "All accounts exhausted" one.
OnRateLimitDetected(account) ==
  LET o1   == [obj EXCEPT ![account].status = "exhausted"]
      next == SelectNext(accounts, activeId, o1, strategy)
  IN
  /\ nNotes' = nNotes + 1
  /\ IF strategy = "manual"
     THEN /\ obj' = o1
          /\ lastNote' = [kind |-> "rateLimited", acct |-> account]
          /\ UNCHANGED <<activeId, tasks>>
     ELSE IF next # None
     THEN /\ CanStart
          /\ LET r == SetActiveEnter(accounts, activeId, o1, next) IN
               /\ activeId' = r.activeId
               /\ obj' = r.obj
               /\ tasks' = Start(Task("setActive", r.pc, next, "rotator", account))
          /\ lastNote' = [kind |-> "switched", acct |-> next]
     ELSE /\ obj' = o1
          /\ lastNote' = [kind |-> "allExhausted", acct |-> account]
          /\ UNCHANGED <<activeId, tasks>>

\* The interceptor's response handler on a 429 from a watched domain (and the
\* simulateRateLimit command): nothing happens without an active account.
Throttle ==
  /\ throttles < MaxThrottles
  /\ throttles' = throttles + 1
  /\ IF GetActive(accounts, activeId) = None
     THEN UNCHANGED <<activeId, obj, tasks, lastNote, nNotes>>
     ELSE OnRateLimitDetected(GetActive(accounts, activeId))
  /\ UNCHANGED <<accounts, nCreated, strategy, crossChecks>>

\* --------------------------------------------- bridge: cross-account switch
\* checkCrossAccountRemote up to `await Promise.all(...)`: with more than one
\* stored account, every non-active account is probed. Which probe succeeds
\* first is the network's choice; acct is candidates[0], or None if none did.
CrossCall(cand) ==
  /\ crossChecks < MaxCross
  /\ CanStart
  /\ Len(accounts) > 1
  /\ \/ cand = None
     \/ InList(accounts, cand) /\ cand # GetActive(accounts, activeId)
  /\ crossChecks' = crossChecks + 1
  /\ tasks' = Start(Task("cross", "probing", cand, "cross", None))
  /\ UNCHANGED <<accounts, activeId, obj, nCreated, strategy, lastNote,
                 nNotes, throttles>>

\* after the probes: no candidate returns false, else the prompt is shown.
CrossProbed(t) ==
  /\ t \in Running
  /\ t.op = "cross" /\ t.pc = "probing"
  /\ tasks' = IF t.acct = None THEN Finish(t)
              ELSE Become(t, [t EXCEPT !.pc = "prompt"])
  /\ UNCHANGED <<accounts, activeId, obj, nCreated, strategy, lastNote,
                 nNotes, throttles, crossChecks>>

\* after the prompt: 'Switch' calls setActive(candidate) with the reference
\* taken before the probes; anything else returns false.
CrossAnswered(t, switch) ==
  /\ t \in Running
  /\ t.op = "cross" /\ t.pc = "prompt"
  /\ IF switch
     THEN LET r == SetActiveEnter(accounts, activeId, obj, t.acct) IN
            /\ activeId' = r.activeId
            /\ obj' = r.obj
            /\ tasks' = Become(t, Task("setActive", r.pc, t.acct, "cross", None))
     ELSE /\ tasks' = Finish(t)
          /\ UNCHANGED <<activeId, obj>>
  /\ UNCHANGED <<accounts, nCreated, strategy, lastNote, nNotes, throttles,
                 crossChecks>>

\* the parts of the state the registry and rotator specs leave alone
NoFlow == [pc |-> "-", cancelAt |-> "-", expired |-> FALSE, interval |-> 0,
           delay |-> 0, slowDowns |-> 0, resp |-> "-", profile |-> "-",
           lateRequest |-> FALSE, outcome |-> "-"]

NoFlows ==
  /\ flows = [f \in 1..MaxFlows |-> NoFlow]
  /\ nFlows = 0
  /\ activeFlow = 0
  /\ clientId = TRUE

NotResolved == [kind |-> "-", username |-> None, password |-> <<>>]

NoUrl ==
  /\ remoteUrl = <<>>
  /\ resolved = NotResolved

HISTORY_DAYS == 7

NoTrackerCall == [op |-> "none", acct |-> None]

\* globalState holds no history yet: `?? new Array(HISTORY_DAYS).fill(0)`
NoHistory == [i \in 1..HISTORY_DAYS |-> 0]

NoUsage ==
  /\ trackerCall = NoTrackerCall
  /\ history = [a \in Ids |-> NoHistory]
  /\ nResets = 0
  /\ today = 1
  /\ countDate = [a \in Ids |-> 1]
  /\ warnedToday = {}
  /\ warnCalls = [a \in Ids |-> 0]
  /\ lastSweep = 0
  /\ sweepSaves = 0

NoObs == [op |-> "none", dest |-> <<>>, wrapped |-> FALSE, status |-> 0,
          acct |-> None, sentAs |-> None, throttled |-> 0, incremented |-> 0]

NoIntercept ==
  /\ installed = FALSE
  /\ layers = 0
  /\ inflight = {}
  /\ lastObs = NoObs
  /\ nResponses = 0

NoVault ==
  /\ vault = <<>>
  /\ vcalls = <<>>
  /\ vaultStart = <<>>
  /\ persistedId = None

\* the parts of the state only the usage, interceptor and vault specs move
NoExtras == NoUsage /\ NoIntercept /\ NoVault

\* ------------------------------------------------------- the registry spec
\* After construction: no accounts, no active id, round-robin.
EmptyRegistry ==
  /\ accounts = <<>>
  /\ activeId = None
  /\ obj = [a \in Ids |-> NewAccount]
  /\ nCreated = 0
  /\ strategy = "round-robin"
  /\ tasks = EmptyBag
  /\ lastNote = NoNote
  /\ nNotes = 0
  /\ throttles = 0
  /\ crossChecks = 0

Init ==
  /\ EmptyRegistry
  /\ picked = NoPick
  /\ NoFlows
  /\ NoUrl
  /\ NoExtras

otherVars == <<selVars, flowVars, bridgeVars, extraVars>>

Next ==
  \/ SessionAdd /\ UNCHANGED otherVars
  \/ \E t \in Running : SessionActivate(t) /\ UNCHANGED otherVars
  \/ \E a \in Ids : SwitchAccount(a) /\ UNCHANGED otherVars
  \/ \E t \in Running : SetActiveAfterPrev(t) /\ UNCHANGED otherVars
  \/ \E t \in Running : SetActiveDone(t) /\ UNCHANGED otherVars
  \/ \E a \in Ids : RemoveCall(a) /\ UNCHANGED otherVars
  \/ \E t \in Running : RemoveAfterVault(t) /\ UNCHANGED otherVars
  \/ \E t \in Running : RemoveDone(t) /\ UNCHANGED otherVars
  \/ \E i \in 1..MaxAccounts, d \in {-1, 1} : MoveAccount(i, d) /\ UNCHANGED otherVars
  \/ \E s \in Strategies : SetStrategy(s) /\ UNCHANGED otherVars
  \/ Throttle /\ UNCHANGED otherVars
  \/ \E c \in Ids \cup {None} : CrossCall(c) /\ UNCHANGED otherVars
  \/ \E t \in Running : CrossProbed(t) /\ UNCHANGED otherVars
  \/ \E t \in Running, sw \in BOOLEAN : CrossAnswered(t, sw) /\ UNCHANGED otherVars

Spec == Init /\ [][Next]_vars


\* ------------------------------------------------------- the rotator spec
\* The rotator on any registry it can be handed: a list of up to RotAccounts
\* accounts in add order with any statuses and request counts, any of them (or
\* none) active, any strategy. 429 responses are handled, the setActive calls
\* they start run on, and selectNext() is also called directly.
RotCounts == {2, 5, 9}

InitRotate ==
  /\ \E n \in 0..RotAccounts : accounts = SubSeq(IdSeq, 1, n)
  /\ activeId \in {accounts[i] : i \in 1..Len(accounts)} \cup {None}
  /\ \E st \in [{accounts[i] : i \in 1..Len(accounts)} -> Statuses],
        rc \in [{accounts[i] : i \in 1..Len(accounts)} -> RotCounts] :
       obj = [a \in Ids |->
                IF InList(accounts, a)
                THEN [status |-> st[a], requestCount |-> rc[a]]
                ELSE NewAccount]
  /\ nCreated = Len(accounts)
  /\ strategy \in Strategies
  /\ tasks = EmptyBag
  /\ lastNote = NoNote
  /\ nNotes = 0
  /\ throttles = 0
  /\ crossChecks = 0
  /\ picked = NoPick
  /\ NoFlows
  /\ NoUrl
  /\ NoExtras

\* a direct call of the public selectNext()
Probe ==
  /\ picked = NoPick
  /\ picked' = SelectNext(accounts, activeId, obj, strategy)
  /\ UNCHANGED <<regVars, flowVars, bridgeVars, extraVars>>

NextRotate ==
  \/ Throttle /\ picked' = NoPick /\ UNCHANGED <<flowVars, bridgeVars, extraVars>>
  \/ \E t \in Running :
        SetActiveAfterPrev(t) /\ picked' = NoPick /\ UNCHANGED <<flowVars, bridgeVars, extraVars>>
  \/ \E t \in Running :
        SetActiveDone(t) /\ picked' = NoPick /\ UNCHANGED <<flowVars, bridgeVars, extraVars>>
  \/ Probe

SpecRotate == InitRotate /\ [][NextRotate]_vars

\* ------------------------------------------------------------ device flow
\* One OAuthFlow per createSession call. A flow's pc is where its authorize()
\* is suspended:
\*   "deviceCode"  awaiting the POST /login/device/code response
\*   "sleep"       in the poll loop, awaiting sleep(pollInterval)
\*   "token"       in the poll loop, awaiting the POST /login/oauth/access_token
\*   "user"        awaiting GET /user
\*   "session"     authorize() returned; createSession is in addAccount/setActive
\*   "done"        createSession settled (its finally block ran)
\* cancelAt records the pc at which _cancelled was first set ("-" = not set),
\* expired that Date.now() has passed expiresAt, interval the poll interval in
\* seconds, lateRequest that a token request was issued with _cancelled set,
\* delay the duration of the sleep last armed, slowDowns how many slow_down
\* answers the flow has received, resp the last answer to a token request,
\* profile how the GET /user request ended.
DefaultInterval == 5

SlowDownStep == 5

Cancelled(fl) == fl.cancelAt # "-"

\* OAuthFlow.cancel() and the progress token's handler: this._cancelled = true
Cancel(fl) == IF Cancelled(fl) THEN fl ELSE [fl EXCEPT !.cancelAt = fl.pc]

\* authorize() rejects; createSession's finally clears the provider's reference
Reject(f, fl, outcome) ==
  /\ flows' = [flows EXCEPT ![f] = [fl EXCEPT !.pc = "done", !.outcome = outcome]]
  /\ activeFlow' = 0

\* the loop head with `while (Date.now() < expiresAt)` replaced by `while (true)`
LoopTopNoExpiry(f, fl) ==
  IF Cancelled(fl) THEN Reject(f, fl, "Cancelled")
  ELSE /\ flows' = [flows EXCEPT ![f] = [fl EXCEPT !.pc = "sleep",
                                                    !.delay = fl.interval]]
       /\ UNCHANGED activeFlow

\* The head of the poll loop: the while condition, the _cancelled check, then
\* `await sleep(pollInterval)`.
LoopTop(f, fl) ==
  IF fl.expired THEN Reject(f, fl, "Timeout")
  ELSE IF Cancelled(fl) THEN Reject(f, fl, "Cancelled")
  ELSE /\ flows' = [flows EXCEPT ![f] = [fl EXCEPT !.pc = "sleep",
                                                    !.delay = fl.interval]]
       /\ UNCHANGED activeFlow

\* createSession up to the first await inside authorize(): cancel the flow the
\* provider references, create a flow, reference it, and request a device code
\* (or fail at once when no client id is configured).
CreateSession ==
  /\ nFlows < MaxFlows
  /\ nFlows' = nFlows + 1
  /\ LET f  == nFlows + 1
         fs == IF activeFlow # 0
               THEN [flows EXCEPT ![activeFlow] = Cancel(flows[activeFlow])]
               ELSE flows
     IN IF clientId
        THEN /\ flows' = [fs EXCEPT ![f] = [NoFlow EXCEPT !.pc = "deviceCode"]]
             /\ activeFlow' = f
        ELSE /\ flows' = [fs EXCEPT ![f] = [NoFlow EXCEPT !.pc = "done",
                                                         !.outcome = "NoClientId"]]
             /\ activeFlow' = 0
  /\ UNCHANGED <<clientId, regVars>>

\* the user sets macide.githubClientId, as the error message instructs
ConfigureClientId ==
  /\ ~clientId
  /\ clientId' = TRUE
  /\ UNCHANGED <<flows, nFlows, activeFlow, regVars>>

\* the device code response arrives (or the request fails)
DeviceCodeResponse(f, r) ==
  /\ f \in 1..nFlows
  /\ flows[f].pc = "deviceCode"
  /\ IF r = "ok" THEN LoopTop(f, [flows[f] EXCEPT !.interval = DefaultInterval])
     ELSE IF r = "malformed" THEN Reject(f, flows[f], "DeviceCodeFailed")
     ELSE Reject(f, flows[f], "NetworkError")
  /\ UNCHANGED <<nFlows, clientId, regVars>>

\* the clock passes expiresAt while the loop is suspended
Expire(f) ==
  /\ f \in 1..nFlows
  /\ flows[f].pc \in {"sleep", "token"}
  /\ ~flows[f].expired
  /\ flows' = [flows EXCEPT ![f].expired = TRUE]
  /\ UNCHANGED <<nFlows, activeFlow, clientId, regVars>>

\* sleep(pollInterval) resolves: the token request is posted
SleepDone(f) ==
  /\ f \in 1..nFlows
  /\ flows[f].pc = "sleep"
  /\ flows' = [flows EXCEPT ![f].pc = "token",
                            ![f].lateRequest = @ \/ Cancelled(flows[f])]
  /\ UNCHANGED <<nFlows, activeFlow, clientId, regVars>>

\* `pollInterval += 5000` left out
NextIntervalUnchanged(interval) == interval

\* case 'slow_down': pollInterval += 5000
NextInterval(interval) == interval + SlowDownStep

\* the switch on tokenResp.error, with the two error kinds exchanged
ErrorOutcomeSwapped(r) ==
  CASE r = "expired_token" -> "Denied"
    [] r = "access_denied" -> "Expired"
    [] OTHER               -> "ProviderError"

\* the switch on tokenResp.error for the codes that end the flow
ErrorOutcome(r) ==
  CASE r = "expired_token" -> "Expired"
    [] r = "access_denied" -> "Denied"
    [] OTHER               -> "ProviderError"

TokenResponses ==
  {"access_token", "authorization_pending", "slow_down", "expired_token",
   "access_denied", "other_error", "no_error", "network"}

\* the token response arrives (or the request fails)
TokenResponse(f, r) ==
  /\ f \in 1..nFlows
  /\ flows[f].pc = "token"
  /\ r \in TokenResponses
  /\ LET fl == [flows[f] EXCEPT !.resp = r] IN
     CASE r = "access_token" ->
            /\ flows' = [flows EXCEPT ![f] = [fl EXCEPT !.pc = "user"]]
            /\ UNCHANGED activeFlow
       [] r \in {"authorization_pending", "no_error"} -> LoopTop(f, fl)
       [] r = "slow_down" ->
            /\ fl.slowDowns < MaxSlowDowns
            /\ LoopTop(f, [fl EXCEPT !.interval = NextInterval(@),
                                     !.slowDowns = @ + 1])
       [] r \in {"expired_token", "access_denied", "other_error"} ->
            Reject(f, fl, ErrorOutcome(r))
       [] r = "network" -> Reject(f, fl, "NetworkError")
  /\ UNCHANGED <<nFlows, clientId, regVars>>

\* GET /user fails: authorize() rejects
UserRequestFails(f) ==
  /\ f \in 1..nFlows
  /\ flows[f].pc = "user"
  /\ Reject(f, [flows[f] EXCEPT !.profile = "failed"], "NetworkError")
  /\ UNCHANGED <<nFlows, clientId, regVars>>

\* GET /user answers: authorize() returns the account (fresh UUID, healthy,
\* requestCount 0, requestCountDate today) and createSession runs addAccount
\* up to its await.
UserResponse(f) ==
  /\ f \in 1..nFlows
  /\ flows[f].pc = "user"
  /\ flows' = [flows EXCEPT ![f].pc = "session", ![f].outcome = "Succeeded",
                            ![f].profile = "ok"]
  /\ LET a == IdSeq[nCreated + 1] IN
       /\ accounts' = accounts \o <<a>>
       /\ obj' = [obj EXCEPT ![a] = NewAccount]
       /\ countDate' = [countDate EXCEPT ![a] = today]
       /\ tasks' = Start([Task("add", "upsertAdd", a, "session", None)
                            EXCEPT !.flow = f])
  /\ nCreated' = nCreated + 1
  /\ UNCHANGED <<nFlows, activeFlow, clientId, activeId, strategy, lastNote,
                 nNotes, throttles, crossChecks>>
  /\ UNCHANGED <<today, warnedToday, warnCalls, lastSweep, sweepSaves,
                 trackerCall, history, nResets>>

\* createSession returns after `await setActive(account)`: the finally block
SessionReturns(f) ==
  /\ flows' = [flows EXCEPT ![f].pc = "done"]
  /\ activeFlow' = 0
  /\ UNCHANGED <<nFlows, clientId>>

\* the user presses Cancel on the progress notification
UserCancel(f) ==
  /\ f \in 1..nFlows
  /\ flows[f].pc \in {"sleep", "token", "user"}
  /\ ~Cancelled(flows[f])
  /\ flows' = [flows EXCEPT ![f] = Cancel(flows[f])]
  /\ UNCHANGED <<nFlows, activeFlow, clientId, regVars>>

NextFlow ==
  \/ CreateSession /\ UNCHANGED <<selVars, bridgeVars, extraVars>>
  \/ ConfigureClientId /\ UNCHANGED <<selVars, bridgeVars, extraVars>>
  \/ \E f \in 1..MaxFlows, r \in {"ok", "malformed", "network"} :
        DeviceCodeResponse(f, r) /\ UNCHANGED <<selVars, bridgeVars, extraVars>>
  \/ \E f \in 1..MaxFlows : Expire(f) /\ UNCHANGED <<selVars, bridgeVars, extraVars>>
  \/ \E f \in 1..MaxFlows : SleepDone(f) /\ UNCHANGED <<selVars, bridgeVars, extraVars>>
  \/ \E f \in 1..MaxFlows, r \in TokenResponses :
        TokenResponse(f, r) /\ UNCHANGED <<selVars, bridgeVars, extraVars>>
  \/ \E f \in 1..MaxFlows : UserRequestFails(f) /\ UNCHANGED <<selVars, bridgeVars, extraVars>>
  \/ \E f \in 1..MaxFlows : UserResponse(f) /\ UNCHANGED <<selVars, bridgeVars, interceptVars, vaultVars>>
  \/ \E f \in 1..MaxFlows : UserCancel(f) /\ UNCHANGED <<selVars, bridgeVars, extraVars>>
  \/ \E t \in Running :
        SessionActivate(t) /\ UNCHANGED <<selVars, flowVars, bridgeVars, extraVars>>
  \/ \E t \in Running :
        SetActiveAfterPrev(t) /\ UNCHANGED <<selVars, flowVars, bridgeVars, extraVars>>
  \/ \E t \in Running :
        SetActiveDone(t) /\ SessionReturns(t.flow) /\ UNCHANGED <<selVars, bridgeVars, extraVars>>

InitFlow ==
  /\ EmptyRegistry
  /\ picked = NoPick
  /\ flows = [f \in 1..MaxFlows |-> NoFlow]
  /\ nFlows = 0
  /\ activeFlow = 0
  /\ clientId \in BOOLEAN
  /\ NoUrl
  /\ NoExtras

SpecFlow == InitFlow /\ [][NextFlow]_vars

\* What a flow's authorize() is waiting for arrives: every https request is
\* answered or fails, and every setTimeout fires.
FlowProgress(f) ==
  /\ \/ \E r \in {"ok", "malformed", "network"} : DeviceCodeResponse(f, r)
     \/ SleepDone(f)
     \/ \E r \in TokenResponses : TokenResponse(f, r)
     \/ UserRequestFails(f)
  /\ UNCHANGED <<selVars, bridgeVars, extraVars>>

FlowProfile(f) ==
  UserResponse(f) /\ UNCHANGED <<selVars, bridgeVars, interceptVars, vaultVars>>

\* Date.now() passes expiresAt
FlowClock(f) == Expire(f) /\ UNCHANGED <<selVars, bridgeVars, extraVars>>

FlowFairness ==
  \A f \in 1..MaxFlows :
     /\ WF_vars(FlowProgress(f) \/ FlowProfile(f))
     /\ WF_vars(FlowClock(f))

SpecFlowFair == InitFlow /\ [][NextFlow]_vars /\ FlowFairness

\* ------------------------------------------------------ credential bridge
\* A remote URL is a sequence of pieces; no piece contains an "@" except the
\* piece "@" itself, and "/" is the only piece that contains a slash apart
\* from the two scheme prefixes.
UrlTokens == {"https://", "http://", "github.com", "evil.com", "@", "/"}

Urls == UNION {[1..n -> UrlTokens] : n \in 0..MaxUrlLen}

\* github\.com\/ at position i
GithubHostAt(url, i) ==
  /\ i + 1 <= Len(url)
  /\ url[i] = "github.com"
  /\ url[i + 1] = "/"

\* /^https?:\/\/(?:[^@]+@)?github\.com\//.test(url)
GITHUB_HTTPS_RE(url) ==
  /\ Len(url) >= 1
  /\ url[1] \in {"http://", "https://"}
  /\ \/ GithubHostAt(url, 2)
     \/ \E j \in 3..Len(url) :
          /\ \A k \in 2..(j - 1) : url[k] # "@"
          /\ url[j] = "@"
          /\ GithubHostAt(url, j + 1)

\* resolveCredentials(remoteUrl)
ResolveCredentials ==
  /\ resolved = NotResolved
  /\ LET active == GetActive(accounts, activeId) IN
     resolved' =
       IF ~GITHUB_HTTPS_RE(remoteUrl) \/ active = None
       THEN [kind |-> "null", username |-> None, password |-> <<>>]
       ELSE [kind |-> "creds", username |-> active,
             password |-> <<"x-access-token:", active>>]
  /\ UNCHANGED <<remoteUrl, regVars, selVars, flowVars, extraVars>>

InitBridge ==
  /\ remoteUrl \in Urls
  /\ resolved = NotResolved
  /\ accounts \in {<<>>, <<"A">>}
  /\ activeId \in {None} \cup {accounts[i] : i \in 1..Len(accounts)}
  /\ obj = [i \in Ids |-> NewAccount]
  /\ nCreated = Len(accounts)
  /\ strategy = "round-robin"
  /\ tasks = EmptyBag
  /\ lastNote = NoNote
  /\ nNotes = 0
  /\ throttles = 0
  /\ crossChecks = 0
  /\ picked = NoPick
  /\ NoFlows
  /\ NoExtras

NextBridge == ResolveCredentials

SpecBridge == InitBridge /\ [][NextBridge]_vars

\* ------------------------------------------- usage tracker and daily reset
\* WARNING_THRESHOLD = 0.8, in tenths
WarningTenths == 8

\* pct >= WARNING_THRESHOLD, pct = requestCount / this._dailyLimit
OverThreshold(count) == 10 * count >= WarningTenths * DailyLimit

\* a staleness test that also takes today's stamp for stale
IsStaleOrToday(date, day) == date <= day

\* account.requestCountDate !== today
IsStale(date, day) == date # day

\* AccountRotator.onWarningThreshold(account): an informational notification,
\* no state change.
OnWarningThreshold(a) ==
  /\ lastNote' = [kind |-> "warning", acct |-> a]
  /\ nNotes' = nNotes + 1
  /\ warnCalls' = [warnCalls EXCEPT ![a] = @ + 1]

\* the status recomputed from the ratio alone, 100% and above giving exhausted
StatusAfterByRatio(st0, count) ==
  IF count >= DailyLimit THEN "exhausted"
  ELSE IF OverThreshold(count) THEN "warning" ELSE "healthy"

\* increment(): `if (account.status !== 'exhausted') { ... }`
StatusAfter(st0, count) ==
  IF st0 = "exhausted" THEN "exhausted"
  ELSE IF OverThreshold(count) THEN "warning" ELSE "healthy"

\* _saveHistory without the slice
SaveHistoryUnbounded(existing, count) == <<count>> \o existing

\* _saveHistory: [account.requestCount, ...existing].slice(0, HISTORY_DAYS)
SaveHistory(existing, count) == SubSeq(<<count>> \o existing, 1, HISTORY_DAYS)

\* AccountTracker.increment(account), up to `await updateAccount(account)`
\* (which re-stores the same object in the list): roll the window if the
\* stamp is stale, count the request, recompute the status.
Increment(a) ==
  LET stale  == IsStale(countDate[a], today)
      st0    == IF stale /\ obj[a].status \in {"exhausted", "warning"}
                THEN "healthy" ELSE obj[a].status
      warned == IF stale THEN warnedToday \ {a} ELSE warnedToday
      count  == (IF stale THEN 0 ELSE obj[a].requestCount) + 1
      fires  == /\ st0 # "exhausted"
                /\ OverThreshold(count)
                /\ a \notin warned
                /\ st0 # "warning"
      st1    == StatusAfter(st0, count)
  IN
  /\ count <= MaxCount
  /\ trackerCall' = [op |-> "increment", acct |-> a]
  /\ history' = IF stale
                THEN [history EXCEPT ![a] = SaveHistory(@, obj[a].requestCount)]
                ELSE history
  /\ obj' = [obj EXCEPT ![a] = [status |-> st1, requestCount |-> count]]
  /\ countDate' = [countDate EXCEPT ![a] = today]
  /\ warnedToday' = IF fires THEN warned \cup {a} ELSE warned
  /\ IF fires THEN OnWarningThreshold(a)
     ELSE UNCHANGED <<lastNote, nNotes, warnCalls>>
  /\ lastSweep' = 0
  /\ sweepSaves' = 0
  /\ UNCHANGED <<accounts, activeId, nCreated, strategy, tasks, throttles,
                 crossChecks, today, nResets>>

\* AccountTracker.resetAccount(account), called for each listed account by
\* the macide.resetUsageCounts command, up to `await updateAccount(account)`
ResetAccount(a) ==
  /\ InList(accounts, a)
  /\ nResets < MaxResets
  /\ nResets' = nResets + 1
  /\ obj' = [obj EXCEPT ![a] =
               [status |-> IF obj[a].status \in {"warning", "exhausted"}
                           THEN "healthy" ELSE obj[a].status,
                requestCount |-> 0]]
  /\ countDate' = [countDate EXCEPT ![a] = today]
  /\ warnedToday' = warnedToday \ {a}
  /\ trackerCall' = [op |-> "resetAccount", acct |-> a]
  /\ lastSweep' = 0
  /\ sweepSaves' = 0
  /\ UNCHANGED <<accounts, activeId, nCreated, strategy, tasks, lastNote,
                 nNotes, throttles, crossChecks, today, warnCalls, history>>

\* the interceptor's 2xx branch: tracker.increment(getActive())
Success ==
  /\ GetActive(accounts, activeId) # None
  /\ Increment(GetActive(accounts, activeId))

\* AccountRotator.resetDailyCountsIfNeeded(): every listed account with a
\* stale stamp gets count 0 and today's stamp, exhausted becomes idle;
\* saveAll(accounts) only if some account changed.
ResetDailyCountsIfNeeded ==
  LET stale == {accounts[i] : i \in 1..Len(accounts)} \cap
               {a \in Ids : IsStale(countDate[a], today)}
  IN
  /\ obj' = [a \in Ids |->
               IF a \in stale
               THEN [status |-> IF obj[a].status = "exhausted" THEN "idle"
                                ELSE obj[a].status,
                     requestCount |-> 0]
               ELSE obj[a]]
  /\ countDate' = [a \in Ids |-> IF a \in stale THEN today ELSE countDate[a]]
  /\ lastSweep' = IF lastSweep = 0 THEN 1 ELSE 2
  /\ sweepSaves' = (IF lastSweep = 0 THEN 0 ELSE sweepSaves)
                    + (IF stale # {} THEN 1 ELSE 0)
  /\ trackerCall' = NoTrackerCall
  /\ UNCHANGED <<accounts, activeId, nCreated, strategy, tasks, lastNote,
                 nNotes, throttles, crossChecks, today, warnedToday, warnCalls,
                 history, nResets>>

\* midnight (UTC) passes
Rollover ==
  /\ today < MaxDays
  /\ today' = today + 1
  /\ warnCalls' = [a \in Ids |-> 0]
  /\ lastSweep' = 0
  /\ sweepSaves' = 0
  /\ trackerCall' = NoTrackerCall
  /\ UNCHANGED <<regVars, countDate, warnedToday, history, nResets>>

\* a registry step, which is not a sweep and leaves the tracker alone
NoSweep ==
  /\ lastSweep' = 0
  /\ sweepSaves' = 0
  /\ trackerCall' = NoTrackerCall
  /\ UNCHANGED <<today, countDate, warnedToday, warnCalls, history, nResets>>

InitUsage ==
  /\ accounts \in {<<"A">>, <<"A", "B">>}
  /\ activeId = "A"
  /\ obj = [a \in Ids |-> IF a = "B" THEN [NewAccount EXCEPT !.status = "idle"]
                          ELSE NewAccount]
  /\ nCreated = Len(accounts)
  /\ strategy \in Strategies
  /\ tasks = EmptyBag
  /\ lastNote = NoNote
  /\ nNotes = 0
  /\ throttles = 0
  /\ crossChecks = 0
  /\ picked = NoPick
  /\ NoFlows
  /\ NoUrl
  /\ NoExtras

NextUsage ==
  \/ Success /\ UNCHANGED <<selVars, flowVars, bridgeVars, interceptVars, vaultVars>>
  \/ ResetDailyCountsIfNeeded /\ UNCHANGED <<selVars, flowVars, bridgeVars, interceptVars, vaultVars>>
  \/ Rollover /\ UNCHANGED <<selVars, flowVars, bridgeVars, interceptVars, vaultVars>>
  \/ Throttle /\ NoSweep /\ UNCHANGED <<selVars, flowVars, bridgeVars, interceptVars, vaultVars>>
  \/ \E t \in Running :
       SetActiveAfterPrev(t) /\ NoSweep /\ UNCHANGED <<selVars, flowVars, bridgeVars, interceptVars, vaultVars>>
  \/ \E t \in Running :
       SetActiveDone(t) /\ NoSweep /\ UNCHANGED <<selVars, flowVars, bridgeVars, interceptVars, vaultVars>>

SpecUsage == InitUsage /\ [][NextUsage]_vars

\* The tracker on its own: requests of the active account succeed or are
\* throttled (strategy manual, so that no rotation is started), the
\* resetUsageCounts command runs, midnight passes.
InitTracker ==
  /\ InitUsage
  /\ strategy = "manual"

NextTracker ==
  \/ Success /\ UNCHANGED <<selVars, flowVars, bridgeVars, interceptVars, vaultVars>>
  \/ \E a \in Ids :
       ResetAccount(a) /\ UNCHANGED <<selVars, flowVars, bridgeVars, interceptVars, vaultVars>>
  \/ Rollover /\ UNCHANGED <<selVars, flowVars, bridgeVars, interceptVars, vaultVars>>
  \/ Throttle /\ NoSweep /\ UNCHANGED <<selVars, flowVars, bridgeVars, interceptVars, vaultVars>>

SpecTracker == InitTracker /\ [][NextTracker]_vars

\* -------------------------------------------------------- HTTP interceptor
COPILOT_DOMAINS ==
  {<<"copilot-proxy", "githubusercontent", "com">>,
   <<"api", "github", "com">>,
   <<"githubcopilot", "com">>}

\* host names are sequences of labels
Hosts ==
  {<<"api", "github", "com">>, <<"x", "githubcopilot", "com">>,
   <<"evilgithubcopilot", "com">>, <<"github", "com">>}

\* hostname.endsWith(`.${d}`)
EndsWithDot(h, d) ==
  /\ Len(h) > Len(d)
  /\ SubSeq(h, Len(h) - Len(d) + 1, Len(h)) = d

IsCopilotDomain(hostname) ==
  \E d \in COPILOT_DOMAINS : hostname = d \/ EndsWithDot(hostname, d)

HttpStatuses == {199, 200, 299, 300, 429}

\* installHttpInterceptor: a no-op when installed, else https.request becomes
\* one wrapper around the original request function.
Install ==
  /\ IF installed THEN UNCHANGED <<installed, layers>>
     ELSE installed' = TRUE /\ layers' = 1
  /\ lastObs' = [NoObs EXCEPT !.op = "install"]
  /\ UNCHANGED <<inflight, nResponses, regVars, usageVars>>

\* uninstallHttpInterceptor
Uninstall ==
  /\ IF ~installed THEN UNCHANGED <<installed, layers>>
     ELSE installed' = FALSE /\ layers' = 0
  /\ lastObs' = [NoObs EXCEPT !.op = "uninstall"]
  /\ UNCHANGED <<inflight, nResponses, regVars, usageVars>>

\* A caller invokes https.request for destination dest, either with an
\* options object (whose hostname is dest) or with a URL (string or URL
\* object) and a second argument whose hostname, if any, is optHost. Each
\* wrapper takes the host name from the options alone and attaches a
\* response listener when that name is a Copilot domain. sentAs is the
\* account that is active when the request is made.
Request(dest, form, optHost) ==
  /\ Cardinality(inflight) < MaxInFlight
  /\ dest \in Hosts
  /\ form \in {"options", "url"}
  /\ optHost \in {<<>>, dest}
  /\ form = "options" => optHost = dest
  /\ LET hostname == optHost IN
     inflight' = inflight \cup
       {[dest |-> dest, form |-> form, wrapped |-> layers > 0,
         sentAs |-> GetActive(accounts, activeId),
         listeners |-> IF IsCopilotDomain(hostname) THEN layers ELSE 0]}
  /\ lastObs' = [NoObs EXCEPT !.op = "request", !.dest = dest,
                              !.wrapped = layers > 0]
  /\ UNCHANGED <<installed, layers, nResponses, regVars, usageVars>>

\* the wrapper's response listener
OnResponse(status) ==
  LET account == GetActive(accounts, activeId) IN
  IF account = None THEN UNCHANGED <<regVars, usageVars>>
  ELSE IF status = 429 THEN Throttle /\ NoSweep
  ELSE IF status >= 200 /\ status < 300 THEN Increment(account)
  ELSE UNCHANGED <<regVars, usageVars>>

\* the response to an in-flight request arrives
Response(req, status) ==
  /\ req \in inflight
  /\ status \in HttpStatuses
  /\ nResponses < MaxResponses
  /\ nResponses' = nResponses + 1
  /\ inflight' = inflight \ {req}
  /\ IF req.listeners = 0 THEN UNCHANGED <<regVars, usageVars>>
     ELSE OnResponse(status)
  /\ LET handled == req.listeners # 0 /\ GetActive(accounts, activeId) # None
     IN lastObs' =
          [op |-> "response", dest |-> req.dest, wrapped |-> req.wrapped,
           status |-> status,
           acct |-> IF handled THEN GetActive(accounts, activeId) ELSE None,
           sentAs |-> req.sentAs,
           throttled |-> IF handled /\ status = 429 THEN req.listeners ELSE 0,
           incremented |-> IF handled /\ status >= 200 /\ status < 300
                           THEN req.listeners ELSE 0]
  /\ UNCHANGED <<installed, layers>>

\* a registry step made while the interceptor is idle
NoCall ==
  /\ lastObs' = NoObs
  /\ UNCHANGED <<installed, layers, inflight, nResponses>>

InitIntercept ==
  /\ accounts \in {<<>>, <<"A">>, <<"A", "B">>}
  /\ activeId = IF accounts = <<>> THEN None ELSE "A"
  /\ obj = [a \in Ids |-> IF a = "B" THEN [NewAccount EXCEPT !.status = "idle"]
                          ELSE NewAccount]
  /\ nCreated = Len(accounts)
  /\ strategy \in Strategies
  /\ tasks = EmptyBag
  /\ lastNote = NoNote
  /\ nNotes = 0
  /\ throttles = 0
  /\ crossChecks = 0
  /\ picked = NoPick
  /\ NoFlows
  /\ NoUrl
  /\ NoExtras

NextIntercept ==
  \/ Install /\ UNCHANGED <<selVars, flowVars, bridgeVars, vaultVars>>
  \/ Uninstall /\ UNCHANGED <<selVars, flowVars, bridgeVars, vaultVars>>
  \/ \E dest \in Hosts, form \in {"options", "url"}, optHost \in Hosts \cup {<<>>} :
       Request(dest, form, optHost) /\ UNCHANGED <<selVars, flowVars, bridgeVars, vaultVars>>
  \/ \E req \in inflight, status \in HttpStatuses :
       Response(req, status) /\ UNCHANGED <<selVars, flowVars, bridgeVars, vaultVars>>
  \/ \E t \in Running :
       SetActiveAfterPrev(t) /\ NoSweep /\ NoCall /\ UNCHANGED <<selVars, flowVars, bridgeVars, vaultVars>>
  \/ \E t \in Running :
       SetActiveDone(t) /\ NoSweep /\ NoCall /\ UNCHANGED <<selVars, flowVars, bridgeVars, vaultVars>>

SpecIntercept == InitIntercept /\ [][NextIntercept]_vars

\* -------------------------------------------------------------------- vault
\* The stored array is a sequence of entries [id, val]; val stands for the
\* account's serialised fields.
VaultVals == {"v1", "v2"}

VaultIds == {"A", "B"}

Entry(id, val) == [id |-> id, val |-> val]

\* accounts.findIndex(a => a.id === id), 0 when absent
RECURSIVE EntryIndexFrom(_, _, _)
EntryIndexFrom(arr, id, i) ==
  IF i > Len(arr) THEN 0
  ELSE IF arr[i].id = id THEN i
  ELSE EntryIndexFrom(arr, id, i + 1)

\* upsertAccount's update of the array it read
Upserted(arr, id, val) ==
  LET idx == EntryIndexFrom(arr, id, 1) IN
  IF idx >= 1 THEN [arr EXCEPT ![idx] = Entry(id, val)]
  ELSE Append(arr, Entry(id, val))

\* accounts.filter(a => a.id !== accountId)
RECURSIVE Removed(_, _)
Removed(arr, id) ==
  IF arr = <<>> THEN <<>>
  ELSE IF Head(arr).id = id THEN Removed(Tail(arr), id)
  ELSE <<Head(arr)>> \o Removed(Tail(arr), id)

\* what an operation stores, given the array it starts from
Outcome(op, arr) ==
  IF op.kind = "upsert" THEN Upserted(arr, op.id, op.val)
  ELSE IF op.kind = "remove" THEN Removed(arr, op.id)
  ELSE op.arr

VaultOps ==
  {[kind |-> "upsert", id |-> id, val |-> val, arr |-> <<>>] :
      id \in VaultIds, val \in VaultVals}
  \cup {[kind |-> "remove", id |-> id, val |-> "-", arr |-> <<>>] : id \in VaultIds}
  \cup {[kind |-> "writeAll", id |-> "-", val |-> "-", arr |-> arr] :
          arr \in {<<>>, <<Entry("A", "v1")>>}}

\* upsertAccount / removeAccount / writeVault is called: upsert and remove
\* first await readVault, writeVault goes straight to secrets.store.
VaultCall(op) ==
  /\ Len(vcalls) < MaxVaultOps
  /\ op \in VaultOps
  /\ vcalls' = Append(vcalls,
       [op |-> op,
        pc |-> IF op.kind = "writeAll" THEN "store" ELSE "get",
        out |-> IF op.kind = "writeAll" THEN op.arr ELSE <<>>])
  /\ UNCHANGED <<vault, vaultStart, persistedId>>

\* `await secrets.get` resolves with the stored array; the new array is
\* computed and handed to secrets.store
VaultGot(i) ==
  /\ i \in 1..Len(vcalls)
  /\ vcalls[i].pc = "get"
  /\ vcalls' = [vcalls EXCEPT ![i].pc = "store",
                              ![i].out = Outcome(vcalls[i].op, vault)]
  /\ UNCHANGED <<vault, vaultStart, persistedId>>

\* secrets.store replaces the stored value
VaultStored(i) ==
  /\ i \in 1..Len(vcalls)
  /\ vcalls[i].pc = "store"
  /\ vault' = vcalls[i].out
  /\ vcalls' = [vcalls EXCEPT ![i].pc = "done"]
  /\ UNCHANGED <<vaultStart, persistedId>>

InitVault ==
  /\ EmptyRegistry
  /\ picked = NoPick
  /\ NoFlows
  /\ NoUrl
  /\ NoUsage
  /\ NoIntercept
  /\ vault \in {<<>>, <<Entry("A", "v1")>>, <<Entry("A", "v1"), Entry("B", "v1")>>}
  /\ vcalls = <<>>
  /\ vaultStart = vault
  /\ persistedId = None

vaultRest == <<regVars, selVars, flowVars, bridgeVars, usageVars, interceptVars>>

NextVault ==
  \/ \E op \in VaultOps : VaultCall(op) /\ UNCHANGED vaultRest
  \/ \E i \in 1..MaxVaultOps : VaultGot(i) /\ UNCHANGED vaultRest
  \/ \E i \in 1..MaxVaultOps : VaultStored(i) /\ UNCHANGED vaultRest

SpecVault == InitVault /\ [][NextVault]_vars

\* ------------------------------------------------- registry and its vault
\* The AccountManager together with what it persists. The stored array holds
\* entries [id, val], val being the account's fields as JSON.stringify saw
\* them when writeVault was called. A call is a record
\*   op    setActive | update | remove | removeSession
\*   acct  the account (id) argument
\*   prev  the account setActive found active and demoted, or None
\*   pc    the await it is suspended at: prevGet, prevStore (upsert of the
\*         demoted account), get, store (upsert or removal of acct), persist
\*         (globalState.update), done
\*   out   the array handed to secrets.store
\*   val   the id handed to globalState.update
RegCall(op, acct, pc) ==
  [op |-> op, acct |-> acct, prev |-> None, pc |-> pc, out |-> <<>>,
   val |-> None]

\* what JSON.stringify(this._accounts) would store
Mirror(accts, o) == [i \in 1..Len(accts) |-> Entry(accts[i], o[accts[i]])]

CanCall == Len(vcalls) < MaxCalls

\* setActive(account) up to its first await
SetActiveCall(a) ==
  /\ CanCall
  /\ InList(accounts, a)
  /\ LET r == SetActiveEnter(accounts, activeId, obj, a) IN
       /\ activeId' = r.activeId
       /\ obj' = r.obj
       /\ vcalls' = Append(vcalls,
            IF r.pc = "upsertPrev"
            THEN [RegCall("setActive", a, "prevGet")
                    EXCEPT !.prev = GetActive(accounts, activeId)]
            ELSE RegCall("setActive", a, "get"))
  /\ UNCHANGED <<accounts, vault, persistedId>>

\* tracker.increment(getActive()) up to the await inside updateAccount
IncrementCall ==
  /\ CanCall
  /\ GetActive(accounts, activeId) # None
  /\ LET a == GetActive(accounts, activeId)
         n == obj[a].requestCount + 1
     IN /\ n <= MaxCount
        /\ obj' = [obj EXCEPT ![a] = [status |-> StatusAfter(obj[a].status, n),
                                      requestCount |-> n]]
        /\ vcalls' = Append(vcalls, RegCall("update", a, "get"))
  /\ UNCHANGED <<accounts, activeId, vault, persistedId>>

\* removeAccountById(accountId) up to `await removeAccount(...)`
RemoveAccountById(a) ==
  /\ CanCall
  /\ InList(accounts, a)
  /\ accounts' = Without(accounts, a)
  /\ vcalls' = Append(vcalls, RegCall("remove", a, "get"))
  /\ UNCHANGED <<activeId, obj, vault, persistedId>>

\* the auth provider's removeSession(sessionId): removeAccount on the vault
\* only; the AccountManager is not told
RemoveSession(a) ==
  /\ CanCall
  /\ InList(accounts, a)
  /\ vcalls' = Append(vcalls, RegCall("removeSession", a, "get"))
  /\ UNCHANGED <<accounts, activeId, obj, vault, persistedId>>

\* the account whose upsert or removal call c is in, at pc prevGet / get
Subject(c) == IF c.pc = "prevGet" THEN c.prev ELSE c.acct

\* `await readVault(secrets)` resolves inside upsertAccount / removeAccount:
\* the array to store is computed and serialised for secrets.store.
VaultRead(i) ==
  /\ i \in 1..Len(vcalls)
  /\ vcalls[i].pc \in {"prevGet", "get"}
  /\ LET c   == vcalls[i]
         a   == Subject(c)
         arr == IF c.op \in {"remove", "removeSession"} THEN Removed(vault, a)
                ELSE Upserted(vault, a, obj[a])
     IN vcalls' = [vcalls EXCEPT ![i].out = arr,
                                 ![i].pc = IF c.pc = "prevGet" THEN "prevStore"
                                           ELSE "store"]
  /\ UNCHANGED <<accounts, activeId, obj, vault, persistedId>>

\* secrets.store resolves and the caller runs on to its next await:
\* setActive moves the pointer after the demoted account's upsert and calls
\* globalState.update after the account's own; removeAccountById repoints
\* the pointer if it was on the removed account.
VaultWritten(i) ==
  /\ i \in 1..Len(vcalls)
  /\ vcalls[i].pc \in {"prevStore", "store"}
  /\ vault' = vcalls[i].out
  /\ LET c == vcalls[i] IN
       IF c.pc = "prevStore"
       THEN /\ activeId' = c.acct
            /\ vcalls' = [vcalls EXCEPT ![i].pc = "get"]
       ELSE IF c.op = "setActive"
       THEN /\ vcalls' = [vcalls EXCEPT ![i].pc = "persist", ![i].val = c.acct]
            /\ UNCHANGED activeId
       ELSE IF c.op = "remove" /\ activeId = c.acct
       THEN LET first == IF Len(accounts) > 0 THEN accounts[1] ELSE None IN
            /\ activeId' = first
            /\ vcalls' = [vcalls EXCEPT ![i].pc = "persist", ![i].val = first]
       ELSE /\ vcalls' = [vcalls EXCEPT ![i].pc = "done"]
            /\ UNCHANGED activeId
  /\ UNCHANGED <<accounts, obj, persistedId>>

\* `await globalState.update('macide.activeAccountId', ...)` resolves; the
\* events fire and the call returns
StatePersisted(i) ==
  /\ i \in 1..Len(vcalls)
  /\ vcalls[i].pc = "persist"
  /\ persistedId' = vcalls[i].val
  /\ vcalls' = [vcalls EXCEPT ![i].pc = "done"]
  /\ UNCHANGED <<accounts, activeId, obj, vault>>

\* after load(): two accounts, the first active, the vault holding them
InitMirror ==
  /\ accounts = <<"A", "B">>
  /\ activeId = "A"
  /\ obj = [a \in Ids |-> IF a = "B" THEN [NewAccount EXCEPT !.status = "idle"]
                          ELSE NewAccount]
  /\ nCreated = 2
  /\ strategy = "manual"
  /\ tasks = EmptyBag
  /\ lastNote = NoNote
  /\ nNotes = 0
  /\ throttles = 0
  /\ crossChecks = 0
  /\ picked = NoPick
  /\ NoFlows
  /\ NoUrl
  /\ NoUsage
  /\ NoIntercept
  /\ vault = Mirror(accounts, obj)
  /\ vaultStart = vault
  /\ vcalls = <<>>
  /\ persistedId = "A"

mirrorRest == <<nCreated, strategy, tasks, lastNote, nNotes, throttles,
                crossChecks, selVars, flowVars, bridgeVars, usageVars,
                interceptVars, vaultStart>>

NextMirror ==
  \/ \E a \in Ids : SetActiveCall(a) /\ UNCHANGED mirrorRest
  \/ IncrementCall /\ UNCHANGED mirrorRest
  \/ \E a \in Ids : RemoveAccountById(a) /\ UNCHANGED mirrorRest
  \/ \E a \in Ids : RemoveSession(a) /\ UNCHANGED mirrorRest
  \/ \E i \in 1..MaxCalls : VaultRead(i) /\ UNCHANGED mirrorRest
  \/ \E i \in 1..MaxCalls : VaultWritten(i) /\ UNCHANGED mirrorRest
  \/ \E i \in 1..MaxCalls : StatePersisted(i) /\ UNCHANGED mirrorRest

SpecMirror == InitMirror /\ [][NextMirror]_vars

\* ------------------------------------------------------------ C1, C2
\* C1: in every reachable state, await points included, the active id is unset
\* or the id of an account in the registry's list.
C1_ActiveIdReferencesAccount ==
  activeId = None \/ InList(accounts, activeId)

\* setActive calls the rotator made for throttled account x that have not
\* completed yet
RotationsInFlight(x) ==
  LET R == {t \in Running : t.op = "setActive" /\ t.src = "rotator" /\ t.about = x}
      RECURSIVE Sum(_)
      Sum(S) == IF S = {} THEN 0
                ELSE LET t == CHOOSE u \in S : TRUE
                     IN CopiesIn(t, tasks) + Sum(S \ {t})
  IN Sum(R)

\* C2: throttle signals for one account that arrive before the first signal's
\* rotation has completed cause one setActive call in total, so no account
\* ever has two rotations in flight.
C2_BurstCollapsesToOneSetActive ==
  \A x \in Ids : RotationsInFlight(x) <= 1


\* ------------------------------------------------------------ C3, C4
\* the step in which the rotator's setActive call t returns
RotationCompletes(t) ==
  /\ t \in Running
  /\ t.op = "setActive" /\ t.src = "rotator" /\ t.pc = "persist"
  /\ tasks' = Finish(t)

\* C3: when the one throttle signal delivered for the active account X under a
\* non-manual strategy has been handled to completion (some other account was
\* not exhausted), X is exhausted, the active account is the one selectNext
\* chose (B for [A,B,C] with A active, round-robin) and the success
\* notification was emitted.
C3_ThrottleRotatesAndKeepsExhausted ==
  [][\A t \in Running :
       (RotationCompletes(t) /\ throttles = 1) =>
          /\ obj'[t.about].status = "exhausted"
          /\ activeId' = t.acct
          /\ lastNote' = [kind |-> "switched", acct |-> t.acct]
          /\ (accounts = <<"A", "B", "C">> /\ t.about = "A"
                /\ strategy = "round-robin" => t.acct = "B")]_vars

\* every account of the list other than x is exhausted
NoOtherAvailable(x) ==
  \A i \in 1..Len(accounts) :
     accounts[i] = x \/ obj[accounts[i]].status = "exhausted"

\* a 429 response is handled for active account x in this step
HandlesThrottle(x) ==
  /\ throttles' = throttles + 1
  /\ x # None
  /\ x = GetActive(accounts, activeId)

\* what C4 says the handling does when nothing is left to rotate to
ExhaustedOutcome(x) ==
  /\ obj'[x].status = "exhausted"
  /\ tasks' = tasks
  /\ activeId' = activeId
  /\ nNotes' = nNotes + 1
  /\ lastNote' = [kind |-> "allExhausted", acct |-> x]

\* C4 as stated: a throttle signal for X with no other non-exhausted account
\* marks X exhausted, calls no setActive, leaves the active id alone and emits
\* exactly one "all exhausted" notification -- whatever the strategy.
C4_Original_AllExhaustedAnyStrategy ==
  [][\A x \in Ids :
       (HandlesThrottle(x) /\ NoOtherAvailable(x)) => ExhaustedOutcome(x)]_vars

\* C4 amended: the same, under a non-manual strategy (round-robin, least-used).
C4_AllExhaustedNoRotation ==
  [][\A x \in Ids :
       (HandlesThrottle(x) /\ NoOtherAvailable(x) /\ strategy # "manual")
          => ExhaustedOutcome(x)]_vars

\* C4's case has happened: two or more accounts, all exhausted, and the last
\* thing emitted is the "all exhausted" notification for the active one.
C4_Witness ==
  /\ Len(accounts) >= 2
  /\ strategy # "manual"
  /\ lastNote = [kind |-> "allExhausted", acct |-> activeId]
  /\ \A i \in 1..Len(accounts) : obj[accounts[i]].status = "exhausted"
  /\ tasks = EmptyBag

\* ------------------------------------------------------------ C5, C6, C7
\* C5: selectNext never returns the active account nor an exhausted one, and
\* returns none when no account other than the active one is non-exhausted.
C5_SelectNextSkipsActiveAndExhausted ==
  picked # NoPick =>
    /\ picked # None =>
         /\ picked # GetActive(accounts, activeId)
         /\ obj[picked].status # "exhausted"
    /\ NoOtherAvailable(GetActive(accounts, activeId)) => picked = None

\* The walk C6 describes: from the position right after the active account
\* through the full list in add order, wrapping once, the first account that
\* is not exhausted (the active account itself is no candidate).
RECURSIVE WalkFrom(_, _, _, _)
WalkFrom(list, o, first, k) ==
  IF k >= Len(list) THEN None
  ELSE LET a == list[((first - 1 + k) % Len(list)) + 1] IN
       IF o[a].status # "exhausted" THEN a
       ELSE WalkFrom(list, o, first, k + 1)

RoundRobinWalk(accts, act, o) ==
  LET pos    == FindIndex(accts, act)
      others == Without(accts, act)
  IN IF Len(others) = 0 THEN None
     ELSE IF pos = 0 THEN WalkFrom(accts, o, 1, 0)
     ELSE WalkFrom(others, o, pos, 0)

\* C6: under round-robin selectNext returns the result of that walk, which
\* depends on the active account's position in the full list ([A,B,C] with B
\* active and just marked exhausted, A and C healthy: C). Stated for the
\* registries in which the active account is itself exhausted or unset, as it
\* is whenever the rotator calls selectNext, so that only the order of the
\* walk is in question.
C6_RoundRobinWalksFullList ==
  (/\ picked # NoPick
   /\ strategy = "round-robin"
   /\ \/ GetActive(accounts, activeId) = None
      \/ obj[activeId].status = "exhausted") =>
     picked = RoundRobinWalk(accounts, activeId, obj)

\* the candidates of spec 4.5: not the active account, not exhausted
Candidates ==
  {accounts[i] : i \in 1..Len(accounts)}
     \ ({GetActive(accounts, activeId)}
        \cup {a \in Ids : obj[a].status = "exhausted"})

\* C7: under least-used selectNext returns the candidate with the smallest
\* requestCount, the earliest in list order among equals.
C7_LeastUsedAmongCandidates ==
  (picked # NoPick /\ strategy = "least-used" /\ Candidates # {}) =>
     /\ picked \in Candidates
     /\ \A c \in Candidates :
          \/ obj[picked].requestCount < obj[c].requestCount
          \/ /\ obj[picked].requestCount = obj[c].requestCount
             /\ FindIndex(accounts, picked) <= FindIndex(accounts, c)


\* ------------------------------------------------------------------- C8
\* C8: once cancel is signalled on a flow that is polling for the token
\* (asleep between polls, or awaiting a token response) the flow issues no
\* further token request, obtains no credential, and ends Cancelled.
C8_CancelStopsPolling ==
  \A f \in 1..nFlows :
    flows[f].cancelAt \in {"sleep", "token"} =>
      /\ ~flows[f].lateRequest
      /\ flows[f].pc \notin {"user", "session"}
      /\ flows[f].pc = "done" => flows[f].outcome = "Cancelled"

\* ------------------------------------------------------------------- C9
Polling == {f \in 1..nFlows : flows[f].pc \in {"sleep", "token"}}

Unfinished ==
  {f \in 1..nFlows : flows[f].pc \in {"deviceCode", "sleep", "token", "user"}}

\* C9: at most one flow polls for the token at any time; every unfinished
\* flow older than another flow has been cancelled; and while some flow is
\* unfinished the provider's reference designates the most recently started
\* unfinished flow.
C9_OneFlowInProgress ==
  /\ Cardinality(Polling) <= 1
  /\ \A f \in Unfinished, g \in 1..nFlows : f < g => Cancelled(flows[f])
  /\ Unfinished # {} =>
       /\ activeFlow \in Unfinished
       /\ \A f \in Unfinished : f <= activeFlow

\* ------------------------------------------------------------------ C10
\* the host of a URL: the authority runs from after the scheme to the first
\* "/", and the host is what follows the authority's last "@"
UrlHost(url) ==
  LET slashes == {k \in 2..Len(url) : url[k] = "/"}
      end     == IF slashes = {} THEN Len(url) + 1
                 ELSE CHOOSE k \in slashes : \A m \in slashes : k <= m
      ats     == {k \in 2..(end - 1) : url[k] = "@"}
      start   == IF ats = {} THEN 2
                 ELSE 1 + CHOOSE k \in ats : \A m \in ats : m <= k
  IN SubSeq(url, start, end - 1)

IsProviderHttpsUrl(url) ==
  /\ Len(url) >= 1
  /\ url[1] = "https://"
  /\ UrlHost(url) = <<"github.com">>

\* C10: resolveCredentials returns a secret only for an HTTPS URL whose host
\* is github.com while an account is active, and then the active account's
\* login with x-access-token:<token>; in every other case it returns none.
C10_SecretOnlyForProviderHttps ==
  resolved.kind = "creds" =>
    /\ IsProviderHttpsUrl(remoteUrl)
    /\ GetActive(accounts, activeId) # None
    /\ resolved.username = activeId
    /\ resolved.password = <<"x-access-token:", activeId>>


\* ------------------------------------------------------------------ C11
\* today's count of account a before a step
CountToday(a) == IF countDate[a] = today THEN obj[a].requestCount ELSE 0

\* the step is an increment of account a
IncrementStep(a) ==
  /\ today' = today
  /\ countDate'[a] = today
  /\ obj'[a].requestCount = CountToday(a) + 1

\* the first count of a day that is at least 80% of the daily limit
ThresholdCount ==
  CHOOSE c \in 1..DailyLimit :
    /\ 10 * c >= 8 * DailyLimit
    /\ \A d \in 1..(c - 1) : 10 * d < 8 * DailyLimit

\* C11: on each day the warning callback fires exactly once for an account
\* whose usage reaches 80% of the daily limit: at the increment that brings
\* today's count to the threshold, where the status also becomes warning;
\* no other increment fires it. (Accounts marked exhausted are left out: the
\* tracker does not touch their status.)
C11_WarningOncePerDay ==
  [][\A a \in Ids :
       (IncrementStep(a) /\ obj[a].status # "exhausted") =>
          IF CountToday(a) + 1 = ThresholdCount
          THEN /\ warnCalls'[a] = warnCalls[a] + 1
               /\ warnCalls'[a] = 1
               /\ obj'[a].status = "warning"
          ELSE warnCalls'[a] = warnCalls[a]]_vars


\* ------------------------------------------------------------------ C12
\* C12: a daily sweep that directly follows a daily sweep on the same day
\* changes no account field and does not call saveAll.
C12_SweepIdempotent ==
  [][(lastSweep >= 1 /\ lastSweep' >= 1) =>
       /\ obj' = obj
       /\ countDate' = countDate
       /\ sweepSaves' = sweepSaves]_vars

\* a second sweep has run on day 2 after the first one reset an account
C12_Witness ==
  /\ today = 2
  /\ lastSweep = 2
  /\ sweepSaves = 1

\* ------------------------------------------------------------------ C13
\* C13: a daily sweep gives every listed account with a stale stamp count 0
\* and today's stamp and turns exhausted or warning into healthy; it leaves
\* the accounts stamped today unchanged; and it persists exactly when some
\* account changed.
C13_SweepResetsStaleToHealthy ==
  [][lastSweep' >= 1 =>
       /\ \A i \in 1..Len(accounts) :
            LET a == accounts[i] IN
            IF countDate[a] # today
            THEN /\ obj'[a].requestCount = 0
                 /\ countDate'[a] = today
                 /\ obj'[a].status = IF obj[a].status \in {"exhausted", "warning"}
                                     THEN "healthy" ELSE obj[a].status
            ELSE obj'[a] = obj[a] /\ countDate'[a] = countDate[a]
       /\ sweepSaves' = (IF lastSweep = 0 THEN 0 ELSE sweepSaves) + 1 <=>
            \E i \in 1..Len(accounts) : countDate[accounts[i]] # today]_vars


\* ------------------------------------------------------------------ C14
\* C14: for each response to a request that went through the installed
\* interceptor: if the destination host is a watched domain and an account
\* is active, a 429 makes exactly one onRateLimitDetected call with the
\* active account and no increment, a 2xx makes exactly one increment of the
\* active account and no onRateLimitDetected call, any other status makes
\* neither; for an unwatched host or without an active account neither is
\* called and the registry is unchanged.
C14_InterceptorDispatch ==
  [][(lastObs'.op = "response" /\ lastObs'.wrapped) =>
       LET o      == lastObs'
           active == GetActive(accounts, activeId)
           ok     == o.status >= 200 /\ o.status < 300
       IN
       IF IsCopilotDomain(o.dest) /\ active # None
       THEN /\ o.status = 429 =>
                 /\ o.throttled = 1 /\ o.incremented = 0 /\ o.acct = active
                 /\ throttles' = throttles + 1
                 /\ obj'[active].requestCount = obj[active].requestCount
            /\ ok =>
                 /\ o.incremented = 1 /\ o.throttled = 0 /\ o.acct = active
                 /\ IncrementStep(active)
                 /\ throttles' = throttles
            /\ (o.status # 429 /\ ~ok) =>
                 /\ o.throttled = 0 /\ o.incremented = 0
                 /\ UNCHANGED <<regVars, countDate>>
       ELSE /\ o.throttled = 0 /\ o.incremented = 0
            /\ UNCHANGED <<regVars, countDate>>]_vars

\* ------------------------------------------------------------------ C15
\* C15: after any sequence of install and uninstall calls the request path
\* carries at most one wrapper, and exactly one while installed; an install
\* while installed changes nothing; after an uninstall the path is the
\* original one; and a request to a watched host sent while installed is
\* observed exactly once.
C15_WrappedExactlyOnce ==
  /\ [](layers <= 1 /\ (installed <=> layers = 1))
  /\ [][(lastObs'.op = "install" /\ installed) =>
          UNCHANGED <<installed, layers, inflight>>]_vars
  /\ [][lastObs'.op = "uninstall" => (layers' = 0 /\ ~installed')]_vars
  /\ [](\A r \in inflight :
          (r.wrapped /\ IsCopilotDomain(r.dest)) => r.listeners = 1)

\* the install/uninstall part alone
C15_InstallUninstallOnly ==
  /\ [](layers <= 1 /\ (installed <=> layers = 1))
  /\ [][(lastObs'.op = "install" /\ installed) =>
          UNCHANGED <<installed, layers, inflight>>]_vars
  /\ [][lastObs'.op = "uninstall" => (layers' = 0 /\ ~installed')]_vars
  /\ [](\A r \in inflight : r.listeners <= 1)


\* ------------------------------------------------------------------ C16
\* the orders in which n operations can be applied one after another
Orders(n) ==
  {f \in [1..n -> 1..n] : \A i, j \in 1..n : f[i] = f[j] => i = j}

\* the array after applying the invoked operations in the order f, from start
RECURSIVE AppliedInOrder(_, _, _)
AppliedInOrder(start, f, k) ==
  IF k = 0 THEN start
  ELSE Outcome(vcalls[f[k]].op, AppliedInOrder(start, f, k - 1))

\* C16: once the vault operations invoked have all completed, the stored
\* array is the result of applying them one after another, in some order, to
\* the array stored before them: no upsert, remove or writeAll is lost.
C16_VaultOpsAtomic ==
  (\A i \in 1..Len(vcalls) : vcalls[i].pc = "done") =>
     \E f \in Orders(Len(vcalls)) :
        vault = AppliedInOrder(vaultStart, f, Len(vcalls))


\* C17: every slow_down answer raises the flow's poll interval by exactly
\* SlowDownStep seconds, no step lowers a flow's interval, and the sleep
\* armed before every later token request lasts at least the raised interval.
SlowDownAnswered(f) == flows'[f].slowDowns = flows[f].slowDowns + 1

C17_SlowDownBacksOff ==
  [][\A f \in 1..MaxFlows :
       /\ SlowDownAnswered(f) =>
            /\ flows[f].pc = "token"
            /\ flows'[f].interval = flows[f].interval + SlowDownStep
       /\ flows'[f].interval >= flows[f].interval
       /\ flows'[f].pc \in {"sleep", "token"} =>
            flows'[f].delay >= DefaultInterval + SlowDownStep * flows'[f].slowDowns]_vars

C17_Witness ==
  \E f \in 1..MaxFlows :
     /\ flows[f].pc = "token"
     /\ flows[f].slowDowns >= 1
     /\ flows[f].delay = DefaultInterval + SlowDownStep * flows[f].slowDowns

PollingEnded(f) == flows[f].pc \in {"user", "session", "done"}

ProfileAnswered(f) == flows[f].pc = "user" /\ flows'[f].pc = "session"

FlowOutcomes ==
  {"Succeeded", "Cancelled", "Timeout", "Expired", "Denied", "ProviderError",
   "NetworkError", "DeviceCodeFailed", "NoClientId"}

Started(f) == flows[f].pc # "-"

Settled(f) == flows[f].outcome \in FlowOutcomes

\* a token response that keeps the flow polling reaches the loop head
BackAtLoopHead(f) ==
  /\ flows[f].pc = "token"
  /\ flows'[f].pc # "token"
  /\ flows'[f].resp \in {"authorization_pending", "slow_down", "no_error"}

C20_ManualNeverRotates ==
  /\ [](strategy = "manual" /\ picked # NoPick => picked = None)
  /\ [][\A x \in Ids :
          (HandlesThrottle(x) /\ strategy = "manual") =>
             /\ obj'[x].status = "exhausted"
             /\ obj'[x].requestCount = obj[x].requestCount
             /\ \A a \in Ids \ {x} : obj'[a] = obj[a]
             /\ nNotes' = nNotes + 1
             /\ lastNote' = [kind |-> "rateLimited", acct |-> x]
             /\ activeId' = activeId
             /\ accounts' = accounts
             /\ tasks' = tasks]_vars

C20_Witness ==
  /\ strategy = "manual"
  /\ lastNote = [kind |-> "rateLimited", acct |-> activeId]
  /\ picked = None
  /\ tasks = EmptyBag
  /\ \E i \in 1..Len(accounts) :
        accounts[i] # activeId /\ obj[accounts[i]].status # "exhausted"

\* ------------------------------------------------------------------ C21
TrackerStep == trackerCall' # NoTrackerCall

\* C21: no tracker call (increment, resetAccount) makes a status exhausted,
\* whatever the count, at or above the daily limit included; an increment of
\* an exhausted account stamped today leaves it exhausted; a tracker call
\* takes exhausted away only from the account it is called for, and only as
\* resetAccount or as an increment that finds a stale stamp; and a status
\* becomes exhausted only where a 429 response is handled for the active
\* account.
C21_TrackerNeverSetsExhausted ==
  [][\A a \in Ids :
       /\ TrackerStep =>
            /\ obj'[a].status = "exhausted" => obj[a].status = "exhausted"
            /\ (obj[a].status = "exhausted" /\ obj'[a].status # "exhausted") =>
                 /\ trackerCall'.acct = a
                 /\ \/ trackerCall'.op = "resetAccount"
                    \/ countDate[a] # today
            /\ (trackerCall' = [op |-> "increment", acct |-> a]
                  /\ obj[a].status = "exhausted" /\ countDate[a] = today) =>
                 obj'[a].status = "exhausted"
       /\ (obj[a].status # "exhausted" /\ obj'[a].status = "exhausted") =>
            HandlesThrottle(a)]_vars

\* an exhausted account stamped today was incremented past the daily limit
C21_Witness ==
  /\ trackerCall = [op |-> "increment", acct |-> activeId]
  /\ obj[activeId].status = "exhausted"
  /\ obj[activeId].requestCount > DailyLimit
  /\ countDate[activeId] = today

\* ------------------------------------------------------------------ C22
\* C22: an increment of an account whose stamp is not today rolls the
\* window first -- the prior count goes to the front of a history of at
\* most HISTORY_DAYS entries, exhausted and warning become healthy, the
\* warned-today flag is cleared -- and then counts the request, so that the
\* count is 1 and the stamp is today afterwards; an increment of an account
\* stamped today adds exactly 1 and leaves stamp and history alone.
C22_IncrementRollsWindowFirst ==
  [][\A a \in Ids :
       trackerCall' = [op |-> "increment", acct |-> a] =>
         IF countDate[a] # today
         THEN /\ obj'[a].requestCount = 1
              /\ countDate'[a] = today
              /\ obj[a].status \in {"exhausted", "warning"} =>
                   obj'[a].status = "healthy"
              /\ a \notin warnedToday'
              /\ Len(history'[a]) <= HISTORY_DAYS
              /\ history'[a][1] = obj[a].requestCount
              /\ \A i \in 2..Len(history'[a]) : history'[a][i] = history[a][i - 1]
         ELSE /\ obj'[a].requestCount = obj[a].requestCount + 1
              /\ countDate'[a] = countDate[a]
              /\ history'[a] = history[a]]_vars

\* the day after a day on which the account reached the warning threshold
C22_Witness ==
  /\ today = 2
  /\ trackerCall = [op |-> "increment", acct |-> "A"]
  /\ obj["A"] = [status |-> "healthy", requestCount |-> 1]
  /\ history["A"][1] >= ThresholdCount
  /\ countDate["A"] = 2

\* ------------------------------------------------------------------ C23
\* call i is made in this step
CallStarts(i) == Len(vcalls) = i - 1 /\ Len(vcalls') = i

\* call i returns in this step
CallCompletes(i) ==
  /\ i <= Len(vcalls)
  /\ vcalls[i].pc # "done"
  /\ vcalls'[i].pc = "done"

\* call i, a setActive, moves the active id in this step
Promotes(i) ==
  /\ i <= Len(vcalls')
  /\ vcalls'[i].op = "setActive"
  /\ \/ CallStarts(i) /\ vcalls'[i].pc = "get"
     \/ i <= Len(vcalls) /\ vcalls[i].pc = "prevStore" /\ vcalls'[i].pc = "get"

\* C23: setActive(Y) with another account X active sets X idle, and X is
\* idle when Y becomes the active id; it changes no other account's status;
\* with Y already active it demotes nobody; and when it completes the
\* active id and the persisted active id are both Y.
C23_SetActiveDemotesThenPromotes ==
  [][\A i \in 1..MaxCalls :
       /\ (CallStarts(i) /\ vcalls'[i].op = "setActive") =>
            LET x == GetActive(accounts, activeId)
                y == vcalls'[i].acct
            IN /\ (x # None /\ x # y) => obj'[x].status = "idle"
               /\ x = y => obj' = obj
               /\ \A a \in Ids \ {x} : obj'[a] = obj[a]
       /\ Promotes(i) =>
            /\ activeId' = vcalls'[i].acct
            /\ vcalls'[i].prev # None => obj'[vcalls'[i].prev].status = "idle"
       /\ (CallCompletes(i) /\ vcalls[i].op = "setActive") =>
            /\ activeId' = vcalls[i].acct
            /\ persistedId' = vcalls[i].acct]_vars

\* ------------------------------------------------------------------ C24
\* the vault array holds an entry for account a
InVault(a) == EntryIndexFrom(vault, a, 1) # 0

\* call i, a removeAccountById, is past its vault write in this step
RemovalWritten(i) ==
  /\ i <= Len(vcalls)
  /\ vcalls[i].op = "remove"
  /\ vcalls[i].pc = "store"
  /\ vcalls'[i].pc # "store"

\* C24: once removeAccountById(id) has completed, id is neither in the list
\* nor in the vault array; the call moves the active id to the first
\* remaining account (or to none) if it was on id, and leaves it alone
\* otherwise.
C24_RemovePurgesListAndVault ==
  /\ [](\A i \in 1..Len(vcalls) :
          (vcalls[i].op = "remove" /\ vcalls[i].pc = "done") =>
             /\ ~InList(accounts, vcalls[i].acct)
             /\ ~InVault(vcalls[i].acct))
  /\ [][\A i \in 1..MaxCalls :
          RemovalWritten(i) =>
             IF activeId = vcalls[i].acct
             THEN activeId' = (IF Len(accounts) > 0 THEN accounts[1] ELSE None)
             ELSE activeId' = activeId]_vars

\* ------------------------------------------------------------------ C25
\* task t is a checkCrossAccountRemote call returning true in this step
CrossReturnsTrue(t) ==
  /\ t.op = "setActive" /\ t.src = "cross" /\ t.pc = "persist"
  /\ tasks' = Finish(t)

\* task t is a checkCrossAccountRemote call returning false in this step
CrossReturnsFalse(t) ==
  /\ t.op = "cross"
  /\ tasks' = Finish(t)

\* C25: checkCrossAccountRemote returns true only for a candidate whose
\* probe succeeded and whose switch prompt was accepted, and that candidate
\* is the active account then; when it returns false (no probe succeeded,
\* or the prompt was declined) it has left the list, the statuses and the
\* active id as they were.
C25_CrossSwitchOnlyOnAcceptedProbe ==
  [][\A t \in Running :
       /\ CrossReturnsTrue(t) =>
            /\ t.acct # None
            /\ GetActive(accounts', activeId') = t.acct
       /\ CrossReturnsFalse(t) =>
            /\ accounts' = accounts
            /\ obj' = obj
            /\ activeId' = activeId]_vars

\* ------------------------------------------------------------------ C26
\* C26: a token request that fails on the network does not end the flow:
\* a flow whose last token request failed is still polling, or has ended at
\* the loop head by cancellation or expiry.
C26_PollSurvivesNetworkFailure ==
  \A f \in 1..MaxFlows :
     flows[f].resp = "network" =>
       flows[f].outcome \in {"-", "Timeout", "Cancelled"}

\* ------------------------------------------------------------------ C27
\* C27: an account marked exhausted stays exhausted through every later
\* setActive, rotation and update, as long as no daily reset and no
\* resetAccount is applied to it (the rotator specification has neither).
C27_ExhaustedUntilReset ==
  [][\A a \in Ids :
       obj[a].status = "exhausted" => obj'[a].status = "exhausted"]_vars

\* ------------------------------------------------------------------ C28
\* no registry or provider call is suspended at an await
Quiescent == \A i \in 1..Len(vcalls) : vcalls[i].pc = "done"

\* C28: whenever no call is in progress the array stored in the vault is the
\* in-memory list: the same ids in the same order with the same field values.
C28_VaultMirrorsRegistry ==
  Quiescent => vault = Mirror(accounts, obj)

\* ------------------------------------------------------------------ C29
\* C29: a 429 response marks no account exhausted other than the one that
\* was active when its request was sent.
C29_ThrottleMarksTheSender ==
  (lastObs.op = "response" /\ lastObs.throttled > 0) =>
     lastObs.acct = lastObs.sentAs

\* ------------------------------------------------------------------ C30
\* C30: whenever the "Switched to <next>" notification is emitted, the
\* active account is already <next>.
C30_SwitchedNoteAfterSwitch ==
  [][(nNotes' = nNotes + 1 /\ lastNote'.kind = "switched") =>
        activeId' = lastNote'.acct]_vars
=============================================================================
